---------------------------- MODULE Spec2Model ----------------------------
(***************************************************************************)
(* Model of RE_7D_search/search_7D.py: the search-loop controller of the   *)
(* __main__ block (initial evidence collection, initial fit, 20 refinement *)
(* rounds with catch-and-retry), the scratch files of sim_fn, and the      *)
(* snapshot files written through save_bolfi.                              *)
(*                                                                         *)
(* The controller is one sequential thread; pc is its position.  Every     *)
(* statement inside a try block may raise; the bare except clauses catch   *)
(* everything.  Statements outside a try block that raise end the program. *)
(***************************************************************************)
EXTENDS Integers, Sequences, FiniteSets, TLC

(***************************************************************************)
(* Program constants.                                                      *)
(***************************************************************************)
n_initial_evidence == 150

EvidenceStep == 50

NumRounds == 20

NumDims == 7

max_parallel_batches == 32

(***************************************************************************)
(* Bounds of the model.                                                    *)
(***************************************************************************)
\* exceptions raised inside try blocks over one run
MaxFail == 1

\* work units in flight when a fit call raises: some have completed and
\* added their evidence point, the others are left pending
MaxInFlight == 1

\* simulator invocations considered at the same time (<= max_parallel_batches)
NumWorkers == 3

\* Tf1 values handed to sim_fn, in tenths of an eV: 1.0 + k/2 for k < NumTf1
NumTf1 == 4

\* longest summary vectors handed to distance1
MaxLen == 2

\* elements of the summary vectors and the shift c range over -MaxVal..MaxVal
MaxVal == 1

\* the draws from a prior are its two end points moved inwards by 1e-4 and
\* the points that cut its support into PriorGrid equal parts
PriorGrid == 2

VARIABLES
    pc,               \* position of the controller
    rnd,              \* value last yielded by the iterator of line 218
    i,                \* the Python variable i (shared by lines 212, 218, 233)
    seedit,           \* next value of the iterator of the seeding loop
    n_evidence,       \* bolfi.state['n_evidence']
    objective,        \* n_evidence argument of the last fit call
    pending,          \* pending work units of bolfi.batches
    index_assigned,   \* completed assignments to bolfi.batches._next_batch_index
    files,            \* snapshot files: name -> evidence count captured
    noise,            \* Gaussian_noise.variance: "free" or "fixed" (1e-10, fixed)
    kconstr,          \* constraint on kernel.lengthscale
    ls,               \* how the lengthscales were last set
    fails,            \* exceptions raised inside a try block so far
    late_failed,      \* one of them was raised after the fit call had returned
    crash,            \* the uncaught exception that ended the program, or "none"
    running,          \* sim_fn invocations in progress: worker -> Tf1 or 0
    dist,             \* arguments and outcomes of calls of distance1
    theta             \* parameter values drawn from the priors (-1: not drawn)

vars == <<pc, rnd, i, seedit, n_evidence, objective, pending, index_assigned,
          files, noise, kconstr, ls, fails, late_failed, crash, running,
          dist, theta>>

ctl == <<pc, rnd, i, seedit, n_evidence, objective, pending, index_assigned,
         files, noise, kconstr, ls, fails, late_failed, crash>>

Max(a, b) == IF a >= b THEN a ELSE b

Min(a, b) == IF a <= b THEN a ELSE b

(***************************************************************************)
(* Pure parts of the controller.                                           *)
(***************************************************************************)
\* variant of RefineTarget: every round asks for 50 more than the evidence of
\* the previous checkpoint
RefineTargetNextStep(iv) == n_initial_evidence + EvidenceStep * (iv + 1)

\* line 223: the n_evidence argument, computed from the variable i
RefineTarget(iv) == n_initial_evidence + EvidenceStep * iv

\* line 205: 'BOLFI_7D_initial_'+str(bolfi.n_initial_evidence)+'.pkl'
InitialSnapshotName == <<"BOLFI_7D_initial_", n_initial_evidence, ".pkl">>

\* variant of RefineSnapshotName: tagged with the initial count in every round
RefineSnapshotNameFixed(iv) == <<"BOLFI_7D_at_", n_initial_evidence, ".pkl">>

\* variant of RefineSnapshotName: tagged with the evidence added, not the total
RefineSnapshotNameAdded(iv) == <<"BOLFI_7D_at_", EvidenceStep * iv, ".pkl">>

\* line 224: 'BOLFI_7D_at_'+str(150+50*i)+'.pkl'
RefineSnapshotName(iv) == <<"BOLFI_7D_at_", n_initial_evidence + EvidenceStep * iv, ".pkl">>

\* line 230: i%2 == 0, on the variable i as it is when the test runs
EvenRegime(iv) == iv % 2 = 0

\* variant of NextRound: a counting loop that increments the variable i
NextRoundFromI(r, iv) == iv + 1

\* line 218: the range iterator yields its own next value, whatever i holds
NextRound(r, iv) == r + 1

\* line 202: the name batch_index is bound nowhere in the file
BatchIndexBound == FALSE

\* save_bolfi(bolfi, fname): the file fname holds the evidence collected so far
save_bolfi(fs, fname, ev) == [f \in (DOMAIN fs) \cup {fname} |-> IF f = fname THEN ev ELSE fs[f]]

\* bolfi.fit(n_evidence=t) that returns: evidence is extended up to t
FitReached(ev, t) == Max(ev, t)

CanFail == fails < MaxFail

\* lines 94-100: the names of the seven priors
ParamNames == {"Tf1", "Tf2", "tmin", "nAr", "log_walltime", "alpha", "beta"}

\* the outcome of a call that has not been made
NotCalled == [raised |-> "not called", value |-> <<>>]

\* lines 142-195: the state when the controller starts
CtlInit ==
    /\ pc = "i_fit"
    /\ rnd = 0
    /\ i = 0
    /\ seedit = 0
    /\ n_evidence = 0
    /\ objective = 0
    /\ pending = 0
    /\ index_assigned = 0
    /\ files = <<>>
    /\ noise = "free"
    /\ kconstr = "positive"
    /\ ls = "default"
    /\ fails = 0
    /\ late_failed = FALSE
    /\ crash = "none"
    /\ running = [w \in 1..NumWorkers |-> 0]

Init ==
    /\ CtlInit
    /\ dist = [x |-> <<>>, y |-> <<>>, c |-> 0, plain |-> NotCalled, shifted |-> NotCalled]
    /\ theta = [p \in ParamNames |-> -1]

\* lines 208 and 225 read tmn.instance anew after every fit call: the fit
\* updates the surrogate and may hand back an instance whose noise variance is
\* free again, or leave the instance as it was
SurrogateAfterFit == {noise, "free"}

(***************************************************************************)
(* A fit call that raises: of the work units in flight, k have completed   *)
(* (each adds one evidence point, never beyond the target) and the others  *)
(* are left pending.                                                       *)
(***************************************************************************)
FitRaises(t) ==
    \E k \in 0..MaxInFlight :
        /\ n_evidence' = Min(n_evidence + k, Max(n_evidence, t))
        /\ pending' = MaxInFlight - k
        /\ objective' = t
        /\ noise' \in SurrogateAfterFit

FitReturns(t) ==
    /\ n_evidence' = FitReached(n_evidence, t)
    /\ pending' = 0
    /\ objective' = t
    /\ noise' \in SurrogateAfterFit

(***************************************************************************)
(* Lines 195-202: initial evidence collection.                             *)
(***************************************************************************)
InitialFitOk ==
    /\ pc = "i_fit"
    /\ FitReturns(n_initial_evidence)
    /\ pc' = "i_save"
    /\ UNCHANGED <<rnd, i, seedit, index_assigned, files, kconstr, ls,
                   fails, late_failed, crash, running, dist, theta>>

InitialFitRaises ==
    /\ pc = "i_fit"
    /\ CanFail
    /\ FitRaises(n_initial_evidence)
    /\ fails' = fails + 1
    /\ pc' = "i_cancel"
    /\ UNCHANGED <<rnd, i, seedit, index_assigned, files, kconstr, ls,
                   late_failed, crash, running, dist, theta>>

\* line 201: bolfi.batches.cancel_pending()
InitialCancel ==
    /\ pc = "i_cancel"
    /\ pending' = 0
    /\ pc' = "i_index"
    /\ UNCHANGED <<rnd, i, seedit, n_evidence, objective, index_assigned, files,
                   noise, kconstr, ls, fails, late_failed, crash, running, dist, theta>>

\* line 202: the right-hand side reads batch_index; an unbound name raises
\* NameError inside the handler, which nothing catches
InitialIndex ==
    /\ pc = "i_index"
    /\ IF BatchIndexBound
       THEN /\ index_assigned' = index_assigned + 1
            /\ pc' = "i_fit"
            /\ crash' = crash
       ELSE /\ index_assigned' = index_assigned
            /\ pc' = "crashed"
            /\ crash' = "NameError"
    /\ UNCHANGED <<rnd, i, seedit, n_evidence, objective, pending, files, noise,
                   kconstr, ls, fails, late_failed, running, dist, theta>>

\* line 205
InitialSave ==
    /\ pc = "i_save"
    /\ files' = save_bolfi(files, InitialSnapshotName, n_evidence)
    /\ pc' = "f_noise"
    /\ UNCHANGED <<rnd, i, seedit, n_evidence, objective, pending, index_assigned,
                   noise, kconstr, ls, fails, late_failed, crash, running, dist, theta>>

(***************************************************************************)
(* Lines 207-215: initial fit of the surrogate.                            *)
(***************************************************************************)
\* lines 209-210
InitialNoise ==
    /\ pc = "f_noise"
    /\ noise' = "fixed"
    /\ pc' = "f_randomize"
    /\ UNCHANGED <<rnd, i, seedit, n_evidence, objective, pending, index_assigned,
                   files, kconstr, ls, fails, late_failed, crash, running, dist, theta>>

\* line 211
InitialRandomize ==
    /\ pc = "f_randomize"
    /\ ls' = "random"
    /\ seedit' = 0
    /\ pc' = "f_seed"
    /\ UNCHANGED <<rnd, i, n_evidence, objective, pending, index_assigned, files,
                   noise, kconstr, fails, late_failed, crash, running, dist, theta>>

\* lines 212-214: one iteration of for i in range(7)
InitialSeed ==
    /\ pc = "f_seed"
    /\ seedit < NumDims
    /\ i' = seedit
    /\ seedit' = seedit + 1
    /\ ls' = IF seedit + 1 = NumDims THEN "seeded" ELSE "seeding"
    /\ pc' = IF seedit + 1 = NumDims THEN "f_optimize" ELSE "f_seed"
    /\ UNCHANGED <<rnd, n_evidence, objective, pending, index_assigned, files,
                   noise, kconstr, fails, late_failed, crash, running, dist, theta>>

\* line 215, then line 218 yields the first round and line 219-220 start it
InitialOptimize ==
    /\ pc = "f_optimize"
    /\ ls' = "optimized"
    /\ rnd' = 0
    /\ i' = 0
    /\ pc' = "r_fit"
    /\ UNCHANGED <<seedit, n_evidence, objective, pending, index_assigned, files,
                   noise, kconstr, fails, late_failed, crash, running, dist, theta>>

\* lines 205-215 are outside every try block: an exception there ends the program
InitialStageRaises ==
    /\ pc \in {"i_save", "f_noise", "f_randomize", "f_seed", "f_optimize"}
    /\ pc' = "crashed"
    /\ crash' = "Exception"
    /\ UNCHANGED <<rnd, i, seedit, n_evidence, objective, pending, index_assigned,
                   files, noise, kconstr, ls, fails, late_failed, running, dist, theta>>

(***************************************************************************)
(* Lines 218-260: refinement rounds.                                       *)
(***************************************************************************)
\* line 223
RefineFitOk ==
    /\ pc = "r_fit"
    /\ FitReturns(RefineTarget(i))
    /\ pc' = "r_save"
    /\ UNCHANGED <<rnd, i, seedit, index_assigned, files, kconstr, ls,
                   fails, late_failed, crash, running, dist, theta>>

\* variant of RefineFitRaises: the exception of the fit call is swallowed and
\* the attempt goes on to the snapshot
RefineFitRaisesSwallowed ==
    /\ pc = "r_fit"
    /\ CanFail
    /\ FitRaises(RefineTarget(i))
    /\ fails' = fails + 1
    /\ pc' = "r_save"
    /\ UNCHANGED <<rnd, i, seedit, index_assigned, files, kconstr, ls,
                   late_failed, crash, running, dist, theta>>

RefineFitRaises ==
    /\ pc = "r_fit"
    /\ CanFail
    /\ FitRaises(RefineTarget(i))
    /\ fails' = fails + 1
    /\ pc' = "r_except"
    /\ UNCHANGED <<rnd, i, seedit, index_assigned, files, kconstr, ls,
                   late_failed, crash, running, dist, theta>>

\* line 224
RefineSave ==
    /\ pc = "r_save"
    /\ files' = save_bolfi(files, RefineSnapshotName(i), n_evidence)
    /\ pc' = "r_noise"
    /\ UNCHANGED <<rnd, i, seedit, n_evidence, objective, pending, index_assigned,
                   noise, kconstr, ls, fails, late_failed, crash, running, dist, theta>>

\* variant of RefineNoise: the variance is set to 1e-10 but not fixed
RefineNoiseSetOnly ==
    /\ pc = "r_noise"
    /\ noise' = noise
    /\ pc' = "r_constrain"
    /\ UNCHANGED <<rnd, i, seedit, n_evidence, objective, pending, index_assigned,
                   files, kconstr, ls, fails, late_failed, crash, running, dist, theta>>

\* lines 225-227
RefineNoise ==
    /\ pc = "r_noise"
    /\ noise' = "fixed"
    /\ pc' = "r_constrain"
    /\ UNCHANGED <<rnd, i, seedit, n_evidence, objective, pending, index_assigned,
                   files, kconstr, ls, fails, late_failed, crash, running, dist, theta>>

\* line 230 with line 231 (even) or lines 239-251 (odd)
RefineConstrain ==
    /\ pc = "r_constrain"
    /\ kconstr' = IF EvenRegime(i) THEN "positive" ELSE "bounded"
    /\ pc' = "r_randomize"
    /\ UNCHANGED <<rnd, i, seedit, n_evidence, objective, pending, index_assigned,
                   files, noise, ls, fails, late_failed, crash, running, dist, theta>>

\* line 232 (even branch, followed by the seeding loop) or line 252 (odd branch)
RefineRandomize ==
    /\ pc = "r_randomize"
    /\ ls' = "random"
    /\ seedit' = 0
    /\ pc' = IF kconstr = "positive" THEN "r_seed" ELSE "r_optimize"
    /\ UNCHANGED <<rnd, i, n_evidence, objective, pending, index_assigned, files,
                   noise, kconstr, fails, late_failed, crash, running, dist, theta>>

\* lines 233-235: one iteration of for i in range(7); it rebinds the i of line 218
RefineSeed ==
    /\ pc = "r_seed"
    /\ seedit < NumDims
    /\ i' = seedit
    /\ seedit' = seedit + 1
    /\ ls' = IF seedit + 1 = NumDims THEN "seeded" ELSE "seeding"
    /\ pc' = IF seedit + 1 = NumDims THEN "r_optimize" ELSE "r_seed"
    /\ UNCHANGED <<rnd, n_evidence, objective, pending, index_assigned, files,
                   noise, kconstr, fails, late_failed, crash, running, dist, theta>>

\* the assignment of line 234 raises (the surrogate is recomputed on every
\* parameter change): i is already bound to the iteration's value
RefineSeedRaises ==
    /\ pc = "r_seed"
    /\ seedit < NumDims
    /\ CanFail
    /\ i' = seedit
    /\ ls' = "seeding"
    /\ fails' = fails + 1
    /\ late_failed' = TRUE
    /\ pc' = "r_except"
    /\ UNCHANGED <<rnd, seedit, n_evidence, objective, pending, index_assigned,
                   files, noise, kconstr, crash, running, dist, theta>>

\* line 236 or 253, then line 254
RefineOptimize ==
    /\ pc = "r_optimize"
    /\ ls' = "optimized"
    /\ pc' = "r_accept"
    /\ UNCHANGED <<rnd, i, seedit, n_evidence, objective, pending, index_assigned,
                   files, noise, kconstr, fails, late_failed, crash, running, dist, theta>>

\* lines 224-232, 236, 252-253 raise: nothing of the statement has taken effect
RefineLateRaises ==
    /\ pc \in {"r_save", "r_noise", "r_constrain", "r_randomize", "r_optimize"}
    /\ CanFail
    /\ fails' = fails + 1
    /\ late_failed' = TRUE
    /\ pc' = "r_except"
    /\ UNCHANGED <<rnd, i, seedit, n_evidence, objective, pending, index_assigned,
                   files, noise, kconstr, ls, crash, running, dist, theta>>

\* variant of RefineExcept: the recovery starts the collection over and
\* drops the evidence collected so far together with the pending work
RefineExceptDropsEvidence ==
    /\ pc = "r_except"
    /\ pending' = 0
    /\ n_evidence' = 0
    /\ pc' = "r_fit"
    /\ UNCHANGED <<rnd, i, seedit, objective, index_assigned, files,
                   noise, kconstr, ls, fails, late_failed, crash, running, dist, theta>>

\* lines 255-260: print, bolfi.batches.reset(), back to the while test
RefineExcept ==
    /\ pc = "r_except"
    /\ pending' = 0
    /\ pc' = "r_fit"
    /\ UNCHANGED <<rnd, i, seedit, n_evidence, objective, index_assigned, files,
                   noise, kconstr, ls, fails, late_failed, crash, running, dist, theta>>

\* the while test of line 221 ends the round; line 218 yields the next round
RefineNext ==
    /\ pc = "r_accept"
    /\ NextRound(rnd, i) < NumRounds
    /\ rnd' = NextRound(rnd, i)
    /\ i' = NextRound(rnd, i)
    /\ pc' = "r_fit"
    /\ UNCHANGED <<seedit, n_evidence, objective, pending, index_assigned, files,
                   noise, kconstr, ls, fails, late_failed, crash, running, dist, theta>>

\* the iterator of line 218 is exhausted: the script ends
RefineDone ==
    /\ pc = "r_accept"
    /\ NextRound(rnd, i) >= NumRounds
    /\ pc' = "done"
    /\ UNCHANGED <<rnd, i, seedit, n_evidence, objective, pending, index_assigned,
                   files, noise, kconstr, ls, fails, late_failed, crash, running, dist, theta>>

Next ==
    \/ InitialFitOk
    \/ InitialFitRaises
    \/ InitialCancel
    \/ InitialIndex
    \/ InitialSave
    \/ InitialNoise
    \/ InitialRandomize
    \/ InitialSeed
    \/ InitialOptimize
    \/ InitialStageRaises
    \/ RefineFitOk
    \/ RefineFitRaises
    \/ RefineSave
    \/ RefineNoise
    \/ RefineConstrain
    \/ RefineRandomize
    \/ RefineSeed
    \/ RefineSeedRaises
    \/ RefineOptimize
    \/ RefineLateRaises
    \/ RefineExcept
    \/ RefineNext
    \/ RefineDone

Spec == Init /\ [][Next]_vars

\* the controller is a running thread: while a statement is left, one executes
LiveSpec == Init /\ [][Next]_vars /\ WF_vars(Next)

(***************************************************************************)
(* Lines 28-61 and 183-185: simulator invocations dispatched in parallel.  *)
(* Tf1 values are in tenths; 0 marks an idle worker.                       *)
(***************************************************************************)
Tf1Values == {10 + 5 * k : k \in 0..(NumTf1 - 1)}

\* str(float(Tf1)): integer part, point, fractional digit
StrFloat(v) == <<v \div 10, ".", v % 10>>

\* lines 52-55: the four scratch paths of one call
sim_fn_paths(tf1) ==
    { <<"bolfi_7D_runs/", <<>>, "test1i.h5">>,
      <<"bolfi_7D_runs/", <<>>, "test1o.h5">>,
      <<"bolfi_7D_runs/", StrFloat(tf1), "init_out.h5">>,
      <<"bolfi_7D_runs/", StrFloat(tf1), "CQ_fluid_out.h5">> }

Busy == {w \in 1..NumWorkers : running[w] # 0}

\* line 185: at most max_parallel_batches batches (of one call each) at a time
SimStart(w, tf1) ==
    /\ running[w] = 0
    /\ Cardinality(Busy) < max_parallel_batches
    /\ running' = [running EXCEPT ![w] = tf1]
    /\ UNCHANGED ctl
    /\ UNCHANGED <<dist, theta>>

\* line 61
SimReturn(w) ==
    /\ running[w] # 0
    /\ running' = [running EXCEPT ![w] = 0]
    /\ UNCHANGED ctl
    /\ UNCHANGED <<dist, theta>>

SimNext ==
    \/ \E w \in 1..NumWorkers, tf1 \in Tf1Values : SimStart(w, tf1)
    \/ \E w \in 1..NumWorkers : SimReturn(w)

SimSpec == Init /\ [][SimNext]_vars

(***************************************************************************)
(* Properties.                                                             *)
(***************************************************************************)
InitialPcs == {"i_fit", "i_cancel", "i_index", "i_save"}

RefinePcs == {"r_fit", "r_save", "r_noise", "r_constrain", "r_randomize",
              "r_seed", "r_optimize", "r_accept", "r_except"}

\* round r of the refinement loop has been left
RoundCompleted(r) ==
    \/ pc \in RefinePcs /\ rnd > r
    \/ pc \in {"r_accept", "done"} /\ rnd >= r

\* C1: when a refinement attempt of round rnd has raised, the failed attempt's
\* target was 150 + 50*rnd, the handler leaves no work pending, and the next
\* attempt calls fit with that same target.
C1_RetrySameTarget ==
    /\ pc = "r_except" => /\ objective = 150 + 50 * rnd
                          /\ RefineTarget(i) = objective
    /\ (pc = "r_fit" /\ fails > 0) => /\ pending = 0
                                     /\ RefineTarget(i) = 150 + 50 * rnd

\* C2: during initial collection, once the handler of a fit exception has
\* run, the next-batch index has been advanced once per failure and the
\* controller has not been ended by the handling.
C2_IndexAdvancedPerFailure ==
    (files = <<>> /\ pc \notin {"i_cancel", "i_index"}) =>
        (index_assigned = fails /\ crash # "NameError")

\* C3: the snapshot written in refinement round rnd carries the tag
\* 150 + 50*rnd, and every snapshot file holds exactly as much evidence as
\* its tag says.
C3_TagEqualsCount ==
    /\ pc = "r_save" => RefineSnapshotName(i) = <<"BOLFI_7D_at_", 150 + 50 * rnd, ".pkl">>
    /\ \A f \in DOMAIN files : files[f] = f[2]

\* C4 as stated: in a run without failures the checkpoints (initial snapshot,
\* then one per round) hold 150, 200, 250, ..., 1150: the snapshot of round r
\* is checkpoint r+1 and holds 150 + 50*(r+1).
C4_ScheduleTo1150 ==
    fails = 0 =>
        /\ \A f \in DOMAIN files : f[1] = "BOLFI_7D_initial_" => files[f] = 150
        /\ \A r \in 0..(NumRounds - 1) :
              <<"BOLFI_7D_at_", 150 + 50 * r, ".pkl">> \in DOMAIN files =>
                  files[<<"BOLFI_7D_at_", 150 + 50 * r, ".pkl">>] = 150 + 50 * (r + 1)

\* C4 amended: in a run without failures the checkpoints hold 150, 150, 200,
\* 250, ..., 1100: the initial snapshot and the snapshot of round 0 hold 150,
\* the snapshot of round r holds 150 + 50*r, never less than the one before it
\* and, from round 1 on, exactly 50 more.
C4_ScheduleTo1100 ==
    fails = 0 =>
        /\ pc \notin InitialPcs \cup {"crashed"} =>
              /\ <<"BOLFI_7D_initial_", 150, ".pkl">> \in DOMAIN files
              /\ files[<<"BOLFI_7D_initial_", 150, ".pkl">>] = 150
        /\ \A r \in 0..(NumRounds - 1) :
              LET snap(k) == <<"BOLFI_7D_at_", 150 + 50 * k, ".pkl">>
              IN  /\ RoundCompleted(r) => snap(r) \in DOMAIN files
                  /\ snap(r) \in DOMAIN files =>
                        /\ files[snap(r)] = 150 + 50 * r
                        /\ (r = 0) => files[snap(r)] = files[<<"BOLFI_7D_initial_", 150, ".pkl">>]
                        /\ (r > 0) => files[snap(r)] = files[snap(r - 1)] + 50

C4_Witness ==
    /\ pc = "done"
    /\ fails = 0
    /\ Cardinality(DOMAIN files) = NumRounds + 1
    /\ files[<<"BOLFI_7D_at_", 1100, ".pkl">>] = 1100

\* a step that writes the snapshot file named f
Writes(f) ==
    \/ pc = "i_save" /\ pc' = "f_noise" /\ f = InitialSnapshotName
    \/ pc = "r_save" /\ pc' = "r_noise" /\ f = RefineSnapshotName(i)

SnapshotNames ==
    {InitialSnapshotName} \cup {RefineSnapshotName(k) : k \in 0..(NumRounds - 1)}

C6_SnapshotsExist ==
    /\ pc \in {"f_noise", "f_randomize", "f_seed", "f_optimize", "done"} \cup RefinePcs =>
          <<"BOLFI_7D_initial_", 150, ".pkl">> \in DOMAIN files
    /\ \A r \in 0..(NumRounds - 1) :
          RoundCompleted(r) => <<"BOLFI_7D_at_", 150 + 50 * r, ".pkl">> \in DOMAIN files

C6_Witness ==
    /\ pc = "done"
    /\ late_failed
    /\ fails = MaxFail
    /\ <<"BOLFI_7D_at_", 450, ".pkl">> \in DOMAIN files
    /\ files[<<"BOLFI_7D_at_", 200, ".pkl">>] > 200

C8_RegimeByRoundParity ==
    pc = "r_optimize" =>
        IF rnd % 2 = 0
        THEN kconstr = "positive" /\ ls = "seeded"
        ELSE kconstr = "bounded" /\ ls = "random"

\* C9: a step taken while handling an exception of the fitting routine leads
\* back to another attempt of the same stage: it neither ends the controller
\* nor moves it to another stage or round.
C9_FailuresRetried ==
    [][/\ pc = "i_cancel" => pc' = "i_index"
       /\ pc = "i_index" => pc' = "i_fit"
       /\ pc = "r_except" => (pc' = "r_fit" /\ rnd' = rnd)]_vars

\* C10: no two simulator invocations in progress at the same time use a
\* common scratch file path.
C10_DisjointScratchPaths ==
    \A a, b \in Busy :
        a # b => sim_fn_paths(running[a]) \cap sim_fn_paths(running[b]) = {}

NpBound == FALSE

Abs(a) == IF a >= 0 THEN a ELSE -a

\* line 77: np.sum(np.abs(x - y))
RECURSIVE SumAbsDiff(_, _)
SumAbsDiff(x, y) ==
    IF Len(x) = 0 THEN 0
    ELSE Abs(Head(x) - Head(y)) + SumAbsDiff(Tail(x), Tail(y))

\* lines 73-79: the name np is looked up when line 77 runs; with np bound the
\* result is the one-element array of line 78
distance1(summary, observed) ==
    IF NpBound
    THEN [raised |-> "none", value |-> <<SumAbsDiff(summary, observed)>>]
    ELSE [raised |-> "NameError", value |-> <<>>]

\* x + c on an array: c added to every element
Shift(x, c) == [j \in 1..Len(x) |-> x[j] + c]

DistValues == (-MaxVal)..MaxVal

DistInit ==
    /\ CtlInit
    /\ theta = [p \in ParamNames |-> -1]
    /\ \E n \in 1..MaxLen :
          \E x \in [1..n -> DistValues], y \in [1..n -> DistValues], c \in DistValues :
              dist = [x |-> x, y |-> y, c |-> c, plain |-> NotCalled, shifted |-> NotCalled]

\* distance1(x, y)
CallPlain ==
    /\ dist.plain = NotCalled
    /\ dist' = [dist EXCEPT !.plain = distance1(dist.x, dist.y)]
    /\ UNCHANGED <<ctl, running, theta>>

\* distance1(x + c, y + c)
CallShifted ==
    /\ dist.shifted = NotCalled
    /\ dist' = [dist EXCEPT !.shifted = distance1(Shift(dist.x, dist.c), Shift(dist.y, dist.c))]
    /\ UNCHANGED <<ctl, running, theta>>

DistNext ==
    \/ CallPlain
    \/ CallShifted

DistSpec == DistInit /\ [][DistNext]_vars

\* C12: a call distance1(x, y) on equal-length vectors returns normally a
\* one-element result holding the sum of |x[j] - y[j]|, which is 0 when x = y
\* and never negative.
C12_SumOfAbsoluteDifferences ==
    dist.plain # NotCalled =>
        /\ dist.plain.raised = "none"
        /\ Len(dist.plain.value) = 1
        /\ dist.plain.value[1] = SumAbsDiff(dist.x, dist.y)
        /\ dist.plain.value[1] >= 0
        /\ dist.x = dist.y => dist.plain.value[1] = 0

\* C13: distance1(x + c, y + c) and distance1(x, y) both return, and return
\* the same value.
C13_TranslationInvariant ==
    (dist.plain # NotCalled /\ dist.shifted # NotCalled) =>
        /\ dist.plain.raised = "none"
        /\ dist.shifted.raised = "none"
        /\ dist.shifted.value = dist.plain.value

\* positions of a refinement attempt at which a hyperparameter is changed
TunePcs == {"r_noise", "r_constrain", "r_randomize", "r_seed", "r_optimize"}

\* C14: in a refinement attempt the snapshot step is reached only by a fit
\* call that returned without exception; the steps follow in the order fit,
\* snapshot, fix noise, constrain, randomize, (seed,) optimize, each one
\* either followed by the next or abandoned for the handler; the controller
\* changes no hyperparameter before the snapshot step is over; and a round is
\* left only from an attempt whose optimize step returned without exception.
C14_AttemptOrder ==
    [][/\ (pc' = "r_save" /\ pc # "r_save") => (pc = "r_fit" /\ fails' = fails)
       /\ pc = "r_fit" => pc' \in {"r_save", "r_except"}
       /\ pc = "r_save" => pc' \in {"r_noise", "r_except"}
       /\ pc = "r_noise" => pc' \in {"r_constrain", "r_except"}
       /\ pc = "r_constrain" => pc' \in {"r_randomize", "r_except"}
       /\ pc = "r_randomize" => pc' \in {"r_seed", "r_optimize", "r_except"}
       /\ pc = "r_seed" => pc' \in {"r_seed", "r_optimize", "r_except"}
       /\ pc = "r_optimize" => pc' \in {"r_accept", "r_except"}
       /\ pc = "r_except" => pc' = "r_fit"
       /\ (pc \in {"r_save", "r_except", "r_accept"} => <<noise', kconstr', ls'>> = <<noise, kconstr, ls>>)
       /\ (pc = "r_fit" => <<kconstr', ls'>> = <<kconstr, ls>>)
       /\ (pc \in TunePcs /\ pc' = "r_except") => <<noise', kconstr'>> = <<noise, kconstr>>
       /\ (pc' = "r_accept" /\ pc # "r_accept") => (pc = "r_optimize" /\ fails' = fails)
       /\ (rnd' # rnd \/ (pc' = "done" /\ pc # "done")) => pc = "r_accept"]_vars

\* a retried attempt has run through all its steps
C14_Witness ==
    /\ pc = "r_accept"
    /\ late_failed
    /\ noise = "fixed"
    /\ ls = "optimized"
    /\ RefineSnapshotName(rnd) \in DOMAIN files

\* C15: whenever the controller is about to randomize, seed or optimize the
\* hyperparameters, in the initial fit and in every refinement attempt of both
\* regimes, the noise variance is fixed at 1e-10.
C15_NoiseFixedBeforeTuning ==
    pc \in {"f_randomize", "f_seed", "f_optimize", "r_randomize", "r_seed", "r_optimize"} =>
        noise = "fixed"

\* an odd-round retry about to optimize
C15_Witness ==
    /\ pc = "r_optimize"
    /\ kconstr = "bounded"
    /\ fails > 0
    /\ noise = "fixed"

(***************************************************************************)
(* Lines 93-100 and 175-178: the priors and the bounds of the surrogate.   *)
(* All quantities are in units of 1e-4.                                    *)
(***************************************************************************)
\* lines 94-100: the loc argument of elfi.Prior('uniform', loc, scale)
PriorLoc(p) ==
    CASE p = "Tf1" -> 10000
      [] p = "Tf2" -> 10000
      [] p = "tmin" -> 10
      [] p = "nAr" -> 10
      [] p = "log_walltime" -> 0
      [] p = "alpha" -> 10
      [] p = "beta" -> 10

\* lines 94-100: the scale argument
PriorScale(p) ==
    CASE p = "Tf1" -> 190000
      [] p = "Tf2" -> 190000
      [] p = "tmin" -> 440
      [] p = "nAr" -> 1000000
      [] p = "log_walltime" -> 70000
      [] p = "alpha" -> 100000
      [] p = "beta" -> 100000

\* lines 175-178: bounds_dict[p][0]
BoundsLow(p) ==
    CASE p = "Tf1" -> 10000
      [] p = "Tf2" -> 10000
      [] p = "tmin" -> 10
      [] p = "nAr" -> 10
      [] p = "log_walltime" -> 0
      [] p = "alpha" -> 10
      [] p = "beta" -> 10

\* lines 175-178: bounds_dict[p][1]
BoundsHigh(p) ==
    CASE p = "Tf1" -> 200000
      [] p = "Tf2" -> 200000
      [] p = "tmin" -> 440
      [] p = "nAr" -> 1000000
      [] p = "log_walltime" -> 70000
      [] p = "alpha" -> 100000
      [] p = "beta" -> 100000

\* a uniform prior with arguments loc and scale has the support (loc, loc + scale)
PriorSupportLow(p) == PriorLoc(p)

PriorSupportHigh(p) == PriorLoc(p) + PriorScale(p)

\* values of the support that are drawn
PriorSamples(p) ==
    {PriorSupportLow(p) + 1, PriorSupportHigh(p) - 1}
        \cup {PriorSupportLow(p) + (PriorScale(p) * k) \div PriorGrid : k \in 1..(PriorGrid - 1)}

\* one parameter of the vector is drawn from its prior
Draw(p, v) ==
    /\ theta' = [theta EXCEPT ![p] = v]
    /\ UNCHANGED <<ctl, running, dist>>

PriorNext == \E p \in ParamNames : \E v \in PriorSamples(p) : Draw(p, v)

PriorSpec == Init /\ [][PriorNext]_vars

\* C16: every parameter value drawn from its prior, end points of the support
\* included, lies in the interval bounds_dict gives for that parameter.
C16_DrawsWithinBounds ==
    \A p \in ParamNames :
        theta[p] # -1 => (BoundsLow(p) <= theta[p] /\ theta[p] <= BoundsHigh(p))

=============================================================================
